---- MODULE Spec2Model ----
(***************************************************************************)
(* A model of feat.py: size-indexed enumerations of algebraic data types.  *)
(* Enum (a sum of constructors, cost one), Constructor (a product of       *)
(* enumerations with a memoized cardinality matrix), IntEnum, ix and elist.*)
(*                                                                         *)
(* Objects are named by strings.  The object graph is the one elist builds *)
(* over IntEnum, a sum of {IntEnum, elist}, and two further Constructors:  *)
(*   ints   = IntEnum()                                                    *)
(*   elist  = Enum()  with  nil = Constructor(lambda: [], [])              *)
(*                          cons = Constructor(app, [ints, elist])         *)
(*   sum    = Enum()  with  children ints, elist                           *)
(*   triple = Constructor(tuple, [sum, ints, sum])       (arity 3)         *)
(*   tomap  = Constructor(listToMap, [elist])            (arity 1)         *)
(***************************************************************************)
EXTENDS Integers, Sequences, FiniteSets, TLC

\* ---------------------------------------------------------------- bounds
MaxN == 5       \* largest size n passed to card and index
NegN == 1       \* sizes down to -NegN are passed to card and index
MaxI == 3       \* largest index i passed to index by callers that keep the contract
MaxCons == 2    \* most children added to one Enum
MaxIx == 3      \* largest flat index passed to ix
MaxScan == 5    \* ix's size scan is followed up to this size
AnyN == 2       \* largest size passed by callers that may break the contract
AnyI == 2       \* largest index passed by such callers (and -1 below zero)

\* ------------------------------------------------------- the object graph
Objs == {"ints", "elist", "nil", "cons", "sum", "triple", "tomap"}
EnumObjs == {"elist", "sum"}
ProdObjs == {"cons", "triple"}

kind ==
  [o \in Objs |->
     CASE o = "ints" -> "IntEnum"
       [] o \in EnumObjs -> "Enum"
       [] o = "nil" -> "Con0"
       [] o = "tomap" -> "Con1"
       [] OTHER -> "ConN"]

\* Constructor.enums: the components of each Constructor
enums ==
  [o \in {"nil", "cons", "triple", "tomap"} |->
     CASE o = "nil" -> <<>>
       [] o = "cons" -> <<"ints", "elist">>
       [] o = "triple" -> <<"sum", "ints", "sum">>
       [] OTHER -> <<"elist">>]

\* the children each Enum is given, in the order the program adds them
Built ==
  [o \in EnumObjs |-> IF o = "elist" THEN <<"nil", "cons">> ELSE <<"ints", "elist">>]

\* ------------------------------------------------------------------ values
\* Python values as records of one shape: integers, lists, tuples, dicts.
IntVal(n) == [tag |-> "int", n |-> n, items |-> <<>>]
ListVal(xs) == [tag |-> "list", n |-> 0, items |-> xs]
TupleVal(xs) == [tag |-> "tuple", n |-> 0, items |-> xs]
NoVal == [tag |-> "none", n |-> 0, items |-> <<>>]

\* app(x, xs): xs.append(x); return xs
app(x, xs) == ListVal(Append(xs.items, x))

\* listToMap(xs): the dict {"a"+str(key): x}, keys counted from 0
listToMap(xs) ==
  [tag |-> "dict", n |-> 0,
   items |-> [j \in 1..Len(xs.items) |-> TupleVal(<<IntVal(j - 1), xs.items[j]>>)]]

\* self.con(*args) for each Constructor
con(o, args) ==
  CASE o = "nil" -> ListVal(<<>>)
    [] o = "cons" -> app(args[1], args[2])
    [] o = "tomap" -> listToMap(args[1])
    [] OTHER -> TupleVal(args)

\* ------------------------------------------------- calls and their outcome
\* A call threads the memo tables st = [constructors, cards, next, cs, wrap]
\* and ends in a value (ok) or a raised exception (err).
Ret(st, v) == [st |-> st, ok |-> TRUE, v |-> v, err |-> "none"]
Raise(st, e) == [st |-> st, ok |-> FALSE, v |-> 0, err |-> e]

\* self.cs[k][idx] with Python list indexing (k counted from 0): a negative
\* idx counts from the end of the row, outside -len..len-1 raises IndexError
ReadCs(st, o, k, idx) ==
  LET row == st.cs[o][k + 1]
      len == Len(row)
  IN IF idx >= len \/ idx < 0 - len
       THEN Raise(st, "IndexError")
       ELSE IF idx < 0
              THEN Ret([st EXCEPT !.wrap = TRUE], row[len + idx + 1])
              ELSE Ret(st, row[idx + 1])

\* IntEnum.card
IntCard(n) == 1

\* the nullary Constructor's card: lambda n: 1 if n==1 else 0
NullaryCard(n) == IF n = 1 THEN 1 ELSE 0

\* Enum.card's argument to its children: len(self.cards)-1
ChildSize(len) == len - 1

\* a call that raised ends the caller too; one that returned r goes on as K(r)
Bind(r, K(_)) == IF r.ok THEN K(r) ELSE r

RECURSIVE card(_, _, _), EnumFill(_, _, _), SumCons(_, _, _, _)
RECURSIVE expand(_, _, _), ExpandRows(_, _, _), ConvSum(_, _, _, _, _, _)

\* for con in self.constructors: c = c + con.card(len(self.cards)-1)
SumCons(st, o, j, c) ==
  IF j > Len(st.constructors[o])
    THEN Ret(st, c)
    ELSE Bind(card(st, st.constructors[o][j], ChildSize(Len(st.cards[o]))),
              LAMBDA r : SumCons(r.st, o, j + 1, c + r.v))

\* while(n >= len(self.cards)): ...; self.cards.append(c)
EnumFill(st, o, n) ==
  IF n < Len(st.cards[o])
    THEN Ret(st, 0)
    ELSE Bind(SumCons(st, o, 1, 0),
              LAMBDA s : EnumFill([s.st EXCEPT !.cards[o] = Append(@, s.v)], o, n))

\* Enum.card
EnumCard(st, o, n) ==
  IF n <= 0
    THEN Ret(st, 0)
    ELSE Bind(EnumFill(st, o, n), LAMBDA r : Ret(r.st, r.st.cards[o][n + 1]))

\* the last i of  for i in range(self.next+1)
ConvTopShort(nx) == nx - 1

ConvTop(nx) == nx

\* for i in range(self.next+1): c = c + self.cs[k+1][i]*self.enums[k].card(self.next-i)
ConvSum(st, o, k, i, top, c) ==
  IF i > top
    THEN Ret(st, c)
    ELSE Bind(ReadCs(st, o, k + 1, i), LAMBDA a :
         Bind(card(a.st, enums[o][k + 1], a.st.next[o] - i), LAMBDA b :
           ConvSum(b.st, o, k, i + 1, top, c + a.v * b.v)))

\* for k in range(len(self.enums)-2, -1, -1): ...; self.cs[k].append(c)
ExpandRows(st, o, k) ==
  IF k < 0
    THEN Ret(st, 0)
    ELSE Bind(ConvSum(st, o, k, 0, ConvTop(st.next[o]), 0), LAMBDA c :
           ExpandRows([c.st EXCEPT !.cs[o][k + 1] = Append(@, c.v)], o, k - 1))

\* Constructor.expand: while(self.next <= n)
expand(st, o, n) ==
  IF st.next[o] > n
    THEN Ret(st, 0)
    ELSE Bind(card(st, enums[o][Len(enums[o])], st.next[o]), LAMBDA r :
         Bind(ExpandRows([r.st EXCEPT !.cs[o][Len(enums[o])] = Append(@, r.v)],
                         o, Len(enums[o]) - 2), LAMBDA rows :
           expand([rows.st EXCEPT !.next[o] = @ + 1], o, n)))

\* Constructor.card (arity >= 2)
ConCard(st, o, n) ==
  Bind(expand(st, o, n), LAMBDA e : ReadCs(e.st, o, 0, n))

\* card of any enumeration
card(st, o, n) ==
  CASE kind[o] = "IntEnum" -> Ret(st, IntCard(n))
    [] kind[o] = "Con0" -> Ret(st, NullaryCard(n))
    [] kind[o] = "Con1" -> card(st, enums[o][1], n)
    [] kind[o] = "Enum" -> EnumCard(st, o, n)
    [] OTHER -> ConCard(st, o, n)

RECURSIVE index(_, _, _, _), EnumIndex(_, _, _, _, _)
RECURSIVE ConArgs(_, _, _, _, _, _), SearchSize(_, _, _, _, _, _)

\* Enum.index's size for its children: n-1
IndexChildSize(n) == n - 1

\* i = i - c in Enum.index
SkipChild(i, c) == i - c

\* Enum.index: for con in self.constructors (the j'th child onwards)
EnumIndex(st, o, n, i, j) ==
  IF j > Len(st.constructors[o])
    THEN Raise(st, "ValueError")
    ELSE Bind(card(st, st.constructors[o][j], IndexChildSize(n)), LAMBDA c :
           IF i < c.v
             THEN index(c.st, st.constructors[o][j], IndexChildSize(n), i)
             ELSE EnumIndex(c.st, o, n, SkipChild(i, c.v), j + 1))

\* the linear search for the size of component k:
\* c = e.card(esize)*self.cs[k+1][n-esize]; while i >= c: i -= c; esize += 1
SearchSize(st, o, k, n, i, esize) ==
  Bind(card(st, enums[o][k + 1], esize), LAMBDA a :
  Bind(ReadCs(a.st, o, k + 1, n - esize), LAMBDA b :
    IF i >= a.v * b.v
      THEN SearchSize(b.st, o, k, n, i - a.v * b.v, esize + 1)
      ELSE Ret(b.st, [esize |-> esize, i |-> i])))

\* (i,ei) = divmod(i, e.card(esize))
divmodNoSplit(i, d) == [q |-> i, r |-> i % d]

divmod(i, d) == [q |-> i \div d, r |-> i % d]

\* Constructor.index: component k onwards (k counted from 0)
ConArgs(st, o, k, n, i, args) ==
  IF k >= Len(enums[o]) - 1
    THEN Bind(index(st, enums[o][Len(enums[o])], n, i), LAMBDA r :
           Ret(r.st, con(o, Append(args, r.v))))
    ELSE Bind(SearchSize(st, o, k, n, i, 0), LAMBDA s :
         Bind(card(s.st, enums[o][k + 1], s.v.esize), LAMBDA d :
           IF d.v = 0
             THEN Raise(d.st, "ZeroDivisionError")
             ELSE Bind(index(d.st, enums[o][k + 1], s.v.esize, divmod(s.v.i, d.v).r),
                       LAMBDA a :
                         ConArgs(a.st, o, k + 1, n - s.v.esize,
                                 divmod(s.v.i, d.v).q, Append(args, a.v)))))

\* the size Constructor.index expands to: self.expand(n)
IndexExpandsPast(n) == n + 1

IndexExpandsTo(n) == n

\* Constructor.index (arity >= 2)
ConIndex(st, o, n, i) ==
  Bind(expand(st, o, IndexExpandsTo(n)), LAMBDA e : ConArgs(e.st, o, 0, n, i, <<>>))

\* index of any enumeration
index(st, o, n, i) ==
  CASE kind[o] = "IntEnum" -> Ret(st, IntVal(n))
    [] kind[o] = "Con0" -> Ret(st, con(o, <<>>))
    [] kind[o] = "Con1" ->
         Bind(index(st, enums[o][1], n, i), LAMBDA r : Ret(r.st, con(o, <<r.v>>)))
    [] kind[o] = "Enum" -> EnumIndex(st, o, n, i, 1)
    [] OTHER -> ConIndex(st, o, n, i)

\* ------------------------------------------------------------------- state
VARIABLES
  constructors,  \* Enum.constructors of each Enum
  cards,         \* Enum.cards of each Enum (cards[o][n+1] is self.cards[n])
  next,          \* Constructor.next of each Constructor of arity >= 2
  cs,            \* Constructor.cs of each Constructor of arity >= 2
  last,          \* the latest call of card, index or ix and how it ended
  obs,           \* one enumeration E, the largest N for which E.card(N) has
                 \* returned, and what each E.card(n) returned
  ixf            \* the frame of a running ix call: enum, index, n

vars == <<constructors, cards, next, cs, last, obs, ixf>>
memo == <<cards, next, cs>>

\* the memo tables as a call sees them
St == [constructors |-> constructors, cards |-> cards, next |-> next, cs |-> cs,
       wrap |-> FALSE]

NoCall == [op |-> "none", obj |-> "none", n |-> 0, i |-> 0, out |-> "none",
           card |-> 0, val |-> NoVal, err |-> "none", wrapped |-> FALSE]
NoFrame == [pc |-> "idle", enum |-> "none", index |-> 0, n |-> 0, arg |-> 0]

\* Enum.__init__ and Constructor.__init__: empty memo tables
FreshCards == [o \in EnumObjs |-> <<0>>]
FreshNext == [o \in ProdObjs |-> 0]
FreshCs == [o \in ProdObjs |-> [k \in 1..Len(enums[o]) |-> <<>>]]

\* the state once every Enum has been given its children
Fresh ==
  /\ cards = FreshCards
  /\ next = FreshNext
  /\ cs = FreshCs
  /\ last = NoCall
  /\ ixf = NoFrame

NoObs == [obj |-> "none", n |-> 0 - 1, ret |-> [s \in 0..MaxN |-> 0 - 1]]

\* the state once every Enum has been given its children, seen by callers
\* that query any of the enumerations
Init ==
  /\ constructors = Built
  /\ Fresh
  /\ obs = NoObs

\* the record of a call that ended as r did
CardCall(o, n, r) ==
  [op |-> "card", obj |-> o, n |-> n, i |-> 0,
   out |-> IF r.ok THEN "val" ELSE "err",
   card |-> IF r.ok THEN r.v ELSE 0, val |-> NoVal, err |-> r.err,
   wrapped |-> r.st.wrap]
IndexCall(op, o, n, i, r) ==
  [op |-> op, obj |-> o, n |-> n, i |-> i,
   out |-> IF r.ok THEN "val" ELSE "err",
   card |-> 0, val |-> IF r.ok THEN r.v ELSE NoVal, err |-> r.err,
   wrapped |-> r.st.wrap]

\* self.cards = [0] in Enum.addcon
ResetCardsKeep(c) == c

ResetCards(c) == <<0>>

\* while(index > enum.card(n)) in ix
IxContinue(ix, c) == ix > c

\* the memo tables a call leaves behind, returned or raised
Leaves(r) ==
  /\ cards' = r.st.cards
  /\ next' = r.st.next
  /\ cs' = r.st.cs

\* o.card(n) has ended as r did
CardEnds(o, n, r) ==
  /\ Leaves(r)
  /\ last' = CardCall(o, n, r)
  /\ obs' = IF o = obs.obj /\ r.ok /\ n \in 0..MaxN
              THEN [obs EXCEPT !.n = IF n > @ THEN n ELSE @, !.ret[n] = r.v]
              ELSE obs

\* a caller's o.card(n)
Card(o, n) ==
  /\ ixf.pc # "scan"
  /\ CardEnds(o, n, card(St, o, n))
  /\ UNCHANGED <<constructors, ixf>>

\* o.index(n, i), or ix's call of it, has ended as r did
IndexEnds(op, o, n, i, r) ==
  /\ Leaves(r)
  /\ last' = IndexCall(op, o, n, i, r)

\* a caller's o.index(n, i)
Index(o, n, i) ==
  /\ ixf.pc # "scan"
  /\ IndexEnds("index", o, n, i, index(St, o, n, i))
  /\ UNCHANGED <<constructors, obs, ixf>>

\* a caller's o.expand(n), which returns nothing
Expand(o, n) ==
  /\ ixf.pc # "scan"
  /\ IndexEnds("expand", o, n, 0, Bind(expand(St, o, n), LAMBDA r : Ret(r.st, NoVal)))
  /\ UNCHANGED <<constructors, obs, ixf>>

\* the caller's contract for index: 0 <= i < card(n)
Below(i, c) == c.ok /\ 0 <= i /\ i < c.v
InContract(o, n, i) == Below(i, card(St, o, n))

\* ------------------- callers that keep the contract, on one enumeration E
\* the built enumerations, and a caller that queries one of them, obs.obj
OneInit ==
  /\ constructors = Built
  /\ Fresh
  /\ \E o \in Objs : obs = [NoObs EXCEPT !.obj = o]

Next ==
  \/ \E n \in 0..MaxN : Card(obs.obj, n)
  \/ \E n \in 0..MaxN, i \in 0..MaxI : InContract(obs.obj, n, i) /\ Index(obs.obj, n, i)

Spec == OneInit /\ [][Next]_vars

\* ------------------------------- callers of any kind, on every enumeration
AnyNext ==
  \/ \E o \in Objs, n \in (0 - NegN)..AnyN : Card(o, n)
  \/ \E o \in Objs \ {"ints", "nil"}, n \in 0..AnyN, i \in (0 - 1)..AnyI : Index(o, n, i)
  \/ \E o \in ProdObjs, n \in (0 - NegN)..AnyN : Expand(o, n)

AnySpec == Init /\ [][AnyNext]_vars

\* ------------------------------------------------------- the build phase
\* Enum.addcon
AddCon(o, c) ==
  /\ ixf.pc # "scan"
  /\ Len(constructors[o]) < MaxCons
  /\ constructors' = [constructors EXCEPT ![o] = Append(@, c)]
  /\ cards' = [cards EXCEPT ![o] = ResetCards(@)]
  /\ last' = [NoCall EXCEPT !.op = "addcon", !.obj = o]
  /\ UNCHANGED <<next, cs, obs, ixf>>

\* e = Enum() before elist adds its constructors; sum already has its children
BuildInit ==
  /\ constructors = [Built EXCEPT !["elist"] = <<>>]
  /\ Fresh
  /\ obs = NoObs

BuildObjs == {"elist", "cons"}

BuildNext ==
  \/ \E c \in {"nil", "cons"} : AddCon("elist", c)
  \/ \E o \in BuildObjs, n \in (0 - NegN)..MaxN : Card(o, n)
  \/ \E n \in 0..MaxN, i \in 0..MaxI : InContract("elist", n, i) /\ Index("elist", n, i)

BuildSpec == BuildInit /\ [][BuildNext]_vars

\* -------------------------------------------------------------------- ix
\* ix(enum, index): n = 0
IxCall(e, x) ==
  /\ ixf.pc # "scan"
  /\ ixf' = [pc |-> "scan", enum |-> e, index |-> x, n |-> 0, arg |-> x]
  /\ UNCHANGED <<constructors, cards, next, cs, last, obs>>

\* the loop's body: index = index - enum.card(n); n = n+1
IxBody(b) ==
  /\ Leaves(b)
  /\ IF b.ok
       THEN /\ ixf' = [ixf EXCEPT !.index = @ - b.v, !.n = @ + 1]
            /\ last' = last
       ELSE /\ ixf' = [ixf EXCEPT !.pc = "done"]
            /\ last' = IndexCall("ix", ixf.enum, ixf.n, ixf.arg, b)

\* ix after the loop's test enum.card(n) has ended as t did
IxTested(t) ==
  IF ~t.ok
    THEN /\ IndexEnds("ix", ixf.enum, ixf.n, ixf.arg, t)
         /\ ixf' = [ixf EXCEPT !.pc = "done"]
    ELSE IF IxContinue(ixf.index, t.v)
           THEN IxBody(card(t.st, ixf.enum, ixf.n))
           ELSE /\ IndexEnds("ix", ixf.enum, ixf.n, ixf.arg,
                             index(t.st, ixf.enum, ixf.n, ixf.index))
                /\ ixf' = [ixf EXCEPT !.pc = "done"]

\* one test of  while(index > enum.card(n)),  then either the loop's body
\* or  return enum.index(n,index)
IxStep ==
  /\ ixf.pc = "scan"
  /\ ixf.n <= MaxScan
  /\ IxTested(card(St, ixf.enum, ixf.n))
  /\ UNCHANGED <<constructors, obs>>

IxNext ==
  \/ \E e \in Objs, x \in 0..MaxIx : IxCall(e, x)
  \/ IxStep

IxSpec == Init /\ [][IxNext]_vars

\* ------------------------------------------------------------- properties
\* what o.card(n) and o.index(n, i) return from the current memo tables
CardV(o, n) == card(St, o, n).v
IndexR(o, n, i) == index(St, o, n, i)

RECURSIVE ChildCards(_, _, _)
\* the sum of c.card(n) over the children of Enum o from the j'th onwards
ChildCards(o, j, n) ==
  IF j > Len(constructors[o])
    THEN 0
    ELSE CardV(constructors[o][j], n) + ChildCards(o, j + 1, n)

RECURSIVE ProductCard(_, _, _), Convolve(_, _, _, _)
\* the number of tuples of total size n drawn from components k..K of o
ProductCard(o, k, n) ==
  IF k = Len(enums[o]) THEN CardV(enums[o][k], n) ELSE Convolve(o, k, n, 0)
\* the sum over i..n of enums[k].card(i) * ProductCard(k+1, n-i)
Convolve(o, k, n, i) ==
  IF i > n
    THEN 0
    ELSE CardV(enums[o][k], i) * ProductCard(o, k + 1, n - i) + Convolve(o, k, n, i + 1)

RECURSIVE SumItems(_, _)
\* the sum of the integers xs[j..]
SumItems(xs, j) == IF j > Len(xs) THEN 0 ELSE xs[j].n + SumItems(xs, j + 1)

RECURSIVE CardsBelow(_, _)
\* the number of values of o of a size below n
CardsBelow(o, n) == IF n <= 0 THEN 0 ELSE CardV(o, n - 1) + CardsBelow(o, n - 1)

\* C1: on the built enumerations (the list enumeration, the sum over
\* enumerations and the Constructors of arity 2 and 3), index(n, i) with
\* 0 <= i < card(n) returns a value, and every other index below card(n)
\* returns a different value.
C1_Bijection ==
  (/\ last.op = "index"
   /\ last.obj \in {"elist", "sum", "cons", "triple"}
   /\ last.n \in 0..MaxN
   /\ 0 <= last.i /\ last.i < CardV(last.obj, last.n))
  => /\ last.out = "val"
     /\ \A j \in 0..(CardV(last.obj, last.n) - 1) :
          j # last.i =>
            /\ IndexR(last.obj, last.n, j).ok
            /\ IndexR(last.obj, last.n, j).v # last.val

C1_Witness ==
  /\ last.op = "index" /\ last.obj = "elist" /\ last.n = 5 /\ last.i = 3
  /\ CardV("elist", 5) = 4
  /\ last.val = ListVal(<<IntVal(2)>>)

\* C2: index(n, i) on an Enum or a Constructor of arity >= 2 with n >= 0 and
\* i < 0 or i >= card(n) ends in an error, never in a value, and reads no
\* memo entry at a negative position.
C2_OutOfRangeRaises ==
  (/\ last.op = "index"
   /\ kind[last.obj] \in {"Enum", "ConN"}
   /\ last.n >= 0
   /\ (last.i < 0 \/ last.i >= CardV(last.obj, last.n)))
  => (last.out = "err" /\ ~last.wrapped)

\* C3: the list enumeration has card(1) = 1 and index(1, 0) = [], and a list
\* returned by index(n, i) has n = 1 + its length + the sum of its elements.
C3_ListSize ==
  /\ (last.op = "card" /\ last.obj = "elist" /\ last.n = 1) => last.card = 1
  /\ (last.op = "index" /\ last.obj = "elist" /\ last.out = "val")
       => last.n = 1 + Len(last.val.items) + SumItems(last.val.items, 1)

\* C4: for a flat index x below the number of values, ix(E, x) returns
\* E.index(n, x - (number of values of a size below n)) for the one size n
\* with that number <= x < the number of values of a size up to n.
C4_IxDecodes ==
  (/\ ixf.pc = "done"
   /\ \E n \in 0..MaxScan :
        CardsBelow(ixf.enum, n) <= ixf.arg /\ ixf.arg < CardsBelow(ixf.enum, n + 1))
  => LET n == CHOOSE m \in 0..MaxScan :
                CardsBelow(ixf.enum, m) <= ixf.arg /\ ixf.arg < CardsBelow(ixf.enum, m + 1)
         want == IndexR(ixf.enum, n, ixf.arg - CardsBelow(ixf.enum, n))
     IN /\ want.ok
        /\ last.out = "val"
        /\ last.val = want.v

\* C5: whatever addcon, card and index calls came before, Enum.card(n)
\* returns 0 for n <= 0 and otherwise the sum of c.card(n-1) over the
\* current children; cards[0] is 0 and every memoized cards[s] is that sum.
C5_SumOfChildren ==
  /\ \A o \in EnumObjs :
       /\ cards[o][1] = 0
       /\ \A s \in 1..(Len(cards[o]) - 1) : cards[o][s + 1] = ChildCards(o, 1, s - 1)
  /\ (last.op = "card" /\ kind[last.obj] = "Enum")
       => /\ last.out = "val"
          /\ last.card = IF last.n <= 0 THEN 0 ELSE ChildCards(last.obj, 1, last.n - 1)

C5_Witness ==
  /\ last.op = "card" /\ last.obj = "elist" /\ last.n = 5 /\ last.card = 4
  /\ constructors["elist"] = <<"nil", "cons">>

\* C6: after any card, index and expand calls, for a Constructor of arity
\* K >= 2 every row of cs has length next,
\* cs[k][s] is the number of tuples of size s of components k..K-1 (the
\* last row the last component's card, each other row the convolution of
\* its component's card with the row below), and card(n) returns the
\* convolution of the first component's card with the product of the rest.
C6_Convolution ==
  \A o \in ProdObjs :
    /\ \A k \in 1..Len(enums[o]) :
         /\ Len(cs[o][k]) = next[o]
         /\ \A s \in 0..(next[o] - 1) : cs[o][k][s + 1] = ProductCard(o, k, s)
    /\ (last.op = "card" /\ last.obj = o /\ last.n >= 0)
         => /\ last.out = "val"
            /\ last.card = Convolve(o, 1, last.n, 0)

C6_Witness ==
  /\ last.op = "card" /\ last.obj = "triple" /\ last.n = 2 /\ last.card = 1
  /\ next["triple"] = 3
  /\ next["cons"] >= 1

\* C7: card(n) with n < 0 returns 0 and raises nothing, for every kind of
\* enumeration and whatever the memo tables hold.
C7_NegativeSizeZero ==
  (last.op = "card" /\ last.n < 0) => (last.out = "val" /\ last.card = 0)

\* C8: after addcon, card(n) on the Enum and on a Constructor that has it as
\* a component returns what a freshly constructed enumeration with the same
\* children returns (before any addcon following a query the memo tables
\* hold nothing else, so this is stated of every card call).
C8_NoStaleCounts ==
  (last.op = "card" /\ last.obj \in {"elist", "cons"} /\ last.n >= 0)
  => /\ last.out = "val"
     /\ last.card = card([St EXCEPT !.cards = FreshCards, !.next = FreshNext,
                                    !.cs = FreshCs], last.obj, last.n).v

\* C9: once E.card(N) has returned, a call E.card(n) with 0 <= n <= N or
\* E.index(n, i) with 0 <= n <= N and 0 <= i < E.card(n) changes no memo
\* table, and E.card(n) returns what it returned before.
C9_WarmFrame ==
  [][(/\ last'.op \in {"card", "index"}
      /\ last'.obj = obs.obj
      /\ 0 <= last'.n /\ last'.n <= obs.n
      /\ (last'.op = "index" => (0 <= last'.i /\ last'.i < CardV(obs.obj, last'.n))))
     => /\ memo' = memo
        /\ (last'.op = "card" /\ obs.ret[last'.n] # 0 - 1)
             => (last'.out = "val" /\ last'.card = obs.ret[last'.n])]_vars

C9_Witness ==
  /\ obs.obj = "triple" /\ obs.n = 4 /\ obs.ret[3] # 0 - 1
  /\ last.op = "index" /\ last.n = 4 /\ last.i = 3 /\ last.out = "val"

\* C10: ix on an enumeration with finitely many values (here the nullary
\* Constructor, which has one), given a flat index at or above their number,
\* never returns: it ends neither in a value nor in an error.
C10_IxNeverEnds ==
  ~(/\ ixf.pc = "done"
    /\ kind[ixf.enum] = "Con0"
    /\ ixf.arg >= CardsBelow(ixf.enum, MaxScan + 1))

====
